---- MODULE Spec2Model ----
(***************************************************************************)
(* Bond analytics (class Bond) and portfolio risk functions of             *)
(* src/Bond.py as a state machine.                                         *)
(*                                                                         *)
(* Numbers.  The program computes with Python/numpy floats.  The model     *)
(* computes with exact rationals [n |-> numerator, d |-> denominator],     *)
(* d > 0, in lowest terms; floating-point rounding is not modelled.        *)
(* Arrays are functions over 0..len-1, as Python indexes them.             *)
(***************************************************************************)
EXTENDS Integers, Sequences, FiniteSets, TLC

(***************************************************************************)
(* Bounds of the model.                                                    *)
(***************************************************************************)
\* the grid arange(1/GridN, 1, 1/GridN); the program's grid has GridN = 10000
GridN == 4
\* largest market price / face value / call price drawn for a bond
MaxPrice == 2
MaxFace == 2
\* years to maturity are drawn in half years, up to MaxHalfYears / 2
MaxHalfYears == 3

(***************************************************************************)
(* Exact rational arithmetic standing for float arithmetic.                *)
(***************************************************************************)
Abs(a) == IF a < 0 THEN 0 - a ELSE a

RECURSIVE GCD(_, _)
GCD(a, b) == IF b = 0 THEN a ELSE GCD(b, a % b)

\* the rational num/den, den # 0, in lowest terms with a positive denominator
Rat(num, den) ==
    LET g == GCD(Abs(num), Abs(den))
        s == IF den < 0 THEN 0 - 1 ELSE 1
    IN  [n |-> (s * num) \div g, d |-> (s * den) \div g]

FromInt(a) == [n |-> a, d |-> 1]
Zero == FromInt(0)
One == FromInt(1)

RAdd(a, b) ==
    LET g == GCD(a.d, b.d)
    IN  Rat(a.n * (b.d \div g) + b.n * (a.d \div g), a.d * (b.d \div g))
RNeg(a) == [n |-> 0 - a.n, d |-> a.d]
RSub(a, b) == RAdd(a, RNeg(b))
RMul(a, b) ==
    LET g1 == GCD(Abs(a.n), b.d)
        g2 == GCD(Abs(b.n), a.d)
    IN  Rat((a.n \div g1) * (b.n \div g2), (a.d \div g2) * (b.d \div g1))
\* a / b for b # 0
RDiv(a, b) == RMul(a, Rat(b.d, b.n))
RAbs(a) == [n |-> Abs(a.n), d |-> a.d]
\* a < b, compared by whole parts and then by the reciprocals of the remainders
RECURSIVE FracLess(_, _, _, _)
FracLess(an, ad, bn, bd) ==
    LET qa == an \div ad
        qb == bn \div bd
        ra == an % ad
        rb == bn % bd
    IN  IF qa # qb THEN qa < qb
        ELSE IF rb = 0 THEN FALSE
        ELSE IF ra = 0 THEN TRUE
        ELSE FracLess(bd, rb, ad, ra)
RLess(a, b) == FracLess(a.n, a.d, b.n, b.d)
RLeq(a, b) == ~RLess(b, a)

RECURSIVE RPowNat(_, _)
RPowNat(a, e) == IF e = 0 THEN One ELSE RMul(a, RPowNat(a, e - 1))
\* a ** e for an integer exponent e and a # 0
RPow(a, e) == IF e >= 0 THEN RPowNat(a, e) ELSE RDiv(One, RPowNat(a, 0 - e))

\* int(a): truncation towards zero
PyInt(a) == IF a.n >= 0 THEN a.n \div a.d ELSE 0 - ((0 - a.n) \div a.d)

\* a min that returns the larger argument
PyMin_max(a, b) == IF RLess(b, a) THEN a ELSE b

\* min(a, b) of Python: the first argument unless the second is smaller
PyMin(a, b) == IF RLess(b, a) THEN b ELSE a

Percent == Rat(1, 100)
Two == FromInt(2)

(***************************************************************************)
(* State.                                                                  *)
(***************************************************************************)
VARIABLES
    pc,           \* position of the caller / of the function being run
    bond,         \* the Bond object (its fields), or NoBond
    y1, y2,       \* calculate_yields: residual arrays f_ytm(x1), f_ytc(x1)
    i,            \* loop index of calculate_yields / of historical_var
    initial_ytm,  \* calculate_yields: index of the best YTM candidate so far
    initial_ytc,  \* calculate_yields: index of the best YTC candidate so far
    yields,       \* (ytm, ytc, ytw) returned by calculate_yields
    t,            \* calculate_durations: loop variable, 0 while unbound
    pv,           \* calculate_durations: running sum
    out,          \* what the last call returned or raised
    call,         \* the portfolio function being run and its arguments
    relevant_returns, \* historical_var: the running count
    prev          \* the caller's record of its previous call on the same
                  \* object: for historical_var the var_p and the result of
                  \* the previous call on the same array, for a bond the
                  \* fields it was constructed with and what the previous
                  \* calculate_bond_analytics returned or raised

vars == <<pc, bond, y1, y2, i, initial_ytm, initial_ytc, yields, t, pv, out,
          call, relevant_returns, prev>>
bondVars == <<bond, y1, y2, initial_ytm, initial_ytc, yields, t, pv>>
riskVars == <<call, relevant_returns, prev>>

NoBond == [kind |-> "none"]
NoArray == <<>>
NoYields == [kind |-> "none"]
NoOut == [kind |-> "none"]
NoCall == [fn |-> "none"]
NoPrev == [kind |-> "none"]
Raised(exc) == [kind |-> "raise", exc |-> exc]

(***************************************************************************)
(* class Bond.                                                             *)
(***************************************************************************)
\* Bond.__init__: stores its arguments, n = int(years_to_maturity * periods)
BondInit(price, coupon, call_price, face_value, tt, years_to_maturity, num_coupon_periods) ==
    [kind |-> "bond",
     years_to_maturity |-> years_to_maturity,
     n |-> PyInt(RMul(years_to_maturity, FromInt(num_coupon_periods))),
     t |-> tt,
     price |-> price,
     coupon |-> coupon,
     call_price |-> call_price,
     face_value |-> face_value,
     num_coupon_periods |-> num_coupon_periods]

\* the grid with its end point 1.0 included
x1_closed == [j \in 0..(GridN - 1) |-> Rat(j + 1, GridN)]

\* x1 = arange(step, 1.0, step) with step = 1/GridN: x1[j] = (j + 1) * step
x1 == [j \in 0..(GridN - 2) |-> Rat(j + 1, GridN)]

\* f_ytm(ytm) of a bond b
f_ytm(b, ytm) ==
    LET C == RDiv(RMul(RMul(FromInt(b.coupon), Percent), FromInt(b.face_value)),
                  FromInt(b.num_coupon_periods))
        growth == RPow(RAdd(One, ytm), b.n)
    IN  RSub(RAdd(RDiv(RMul(C, RSub(One, RDiv(One, growth))), ytm),
                  RDiv(FromInt(b.face_value), growth)),
             FromInt(b.price))

\* f_ytc(ytc) of a bond b; 2 * b.t is a whole number of half years
f_ytc(b, ytc) ==
    LET C == RMul(RMul(FromInt(b.coupon), Percent), FromInt(b.face_value))
        half == RDiv(ytc, Two)
        periods == PyInt(RMul(Two, b.t))
    IN  RSub(RAdd(RMul(RDiv(C, Two),
                       RDiv(RSub(One, RPow(RAdd(One, half), 0 - periods)), half)),
                  RDiv(FromInt(b.call_price), RPow(RAdd(One, half), periods))),
             FromInt(b.price))

\* the test with >= in place of >
Better_ge(y, cur, j) == RLeq(RAbs(y[j]), RAbs(y[cur]))

\* the test of the scan: candidate j is strictly closer to zero than cur
Better(y, cur, j) == RLess(RAbs(y[j]), RAbs(y[cur]))

\* the inputs a caller may construct a bond from: the constructor checks nothing
Prices == (0 - 1)..MaxPrice
Coupons == {0, 25, 50}
CallPrices == 1..MaxFace
FaceValues == 0..MaxFace
CallYears == {Rat(h, 2) : h \in 0..2}
MaturityYears == {Rat(h, 2) : h \in (0 - 1)..MaxHalfYears}
Periods == {1, 2}

Init ==
    /\ pc = "idle"
    /\ bond = NoBond
    /\ y1 = NoArray
    /\ y2 = NoArray
    /\ i = 0
    /\ initial_ytm = 0
    /\ initial_ytc = 0
    /\ yields = NoYields
    /\ t = 0
    /\ pv = Zero
    /\ out = NoOut
    /\ call = NoCall
    /\ relevant_returns = 0
    /\ prev = NoPrev

\* b = Bond(price, coupon, call_price, face_value, t, years_to_maturity, periods)
NewBond ==
    /\ pc = "idle"
    /\ \E price \in Prices, coupon \in Coupons, call_price \in CallPrices,
          face_value \in FaceValues, tt \in CallYears,
          years_to_maturity \in MaturityYears, num_coupon_periods \in Periods :
           /\ bond' = BondInit(price, coupon, call_price, face_value, tt,
                               years_to_maturity, num_coupon_periods)
           /\ prev' = [kind |-> "bond", out |-> NoOut,
                       made |-> BondInit(price, coupon, call_price, face_value,
                                         tt, years_to_maturity, num_coupon_periods)]
    /\ pc' = "constructed"
    /\ UNCHANGED <<y1, y2, i, initial_ytm, initial_ytc, yields, t, pv, out>>
    /\ UNCHANGED <<call, relevant_returns>>

\* b.calculate_bond_analytics() is called and calculate_yields starts:
\* the residual arrays are computed and both indices start at 0
CallAnalytics ==
    /\ pc \in {"constructed", "returned", "raised"}
    /\ bond.kind = "bond"
    /\ y1' = [j \in DOMAIN x1 |-> f_ytm(bond, x1[j])]
    /\ y2' = [j \in DOMAIN x1 |-> f_ytc(bond, x1[j])]
    /\ initial_ytm' = 0
    /\ initial_ytc' = 0
    /\ i' = 0
    /\ yields' = NoYields
    /\ t' = 0
    /\ pv' = Zero
    /\ out' = NoOut
    /\ pc' = "scan"
    /\ prev' = [prev EXCEPT !.out = out]
    /\ UNCHANGED bond
    /\ UNCHANGED <<call, relevant_returns>>

\* the scan with the second test chained to the first by elif
ScanStep_elif ==
    /\ pc = "scan"
    /\ i \in DOMAIN y1
    /\ initial_ytm' = IF Better(y1, initial_ytm, i) THEN i ELSE initial_ytm
    /\ initial_ytc' = IF ~Better(y1, initial_ytm, i) /\ Better(y2, initial_ytc, i)
                        THEN i ELSE initial_ytc
    /\ i' = i + 1
    /\ UNCHANGED <<pc, bond, y1, y2, yields, t, pv, out>>
    /\ UNCHANGED riskVars

\* one iteration of: for i in range(0, len(y1))
ScanStep ==
    /\ pc = "scan"
    /\ i \in DOMAIN y1
    /\ initial_ytm' = IF Better(y1, initial_ytm, i) THEN i ELSE initial_ytm
    /\ initial_ytc' = IF Better(y2, initial_ytc, i) THEN i ELSE initial_ytc
    /\ i' = i + 1
    /\ UNCHANGED <<pc, bond, y1, y2, yields, t, pv, out>>
    /\ UNCHANGED riskVars

\* the candidate returned without the multiplication
AnnualYtm_raw(b, cand) == cand

\* ytm = num_coupon_periods * x1[initial_ytm]
AnnualYtm(b, cand) == RMul(FromInt(b.num_coupon_periods), cand)

\* the loop has ended: ytm, ytc and ytw are computed and returned, and
\* calculate_durations(ytm) starts with pv = 0
ScanEnd ==
    /\ pc = "scan"
    /\ i \notin DOMAIN y1
    /\ LET ytm == AnnualYtm(bond, x1[initial_ytm])
           ytc == x1[initial_ytc]
           ytw == PyMin(ytm, ytc)
       IN  yields' = [kind |-> "yields", ytm |-> ytm, ytc |-> ytc, ytw |-> ytw]
    /\ pv' = Zero
    /\ t' = 0
    /\ pc' = "durations"
    /\ UNCHANGED <<bond, y1, y2, i, initial_ytm, initial_ytc, out>>
    /\ UNCHANGED riskVars

\* i = coupon * 0.01 and c = coupon * 0.01 * face_value of calculate_durations
CouponRate(b) == RMul(FromInt(b.coupon), Percent)
CouponAmount(b) == RMul(RMul(FromInt(b.coupon), Percent), FromInt(b.face_value))

\* the loop with the bond's field t as its loop variable (for self.t in ...)
DurationStep_self ==
    /\ pc = "durations"
    /\ t + 1 <= bond.n
    /\ t' = t + 1
    /\ bond' = [bond EXCEPT !.t = FromInt(t')]
    /\ pv' = RAdd(pv, RDiv(RMul(FromInt(t'), CouponAmount(bond)),
                           RPow(RAdd(One, CouponRate(bond)), t')))
    /\ UNCHANGED <<pc, y1, y2, i, initial_ytm, initial_ytc, yields, out>>
    /\ UNCHANGED riskVars

\* one iteration of: for t in range(1, n + 1, 1): pv += (t * c) / ((1 + i) ** t)
DurationStep ==
    /\ pc = "durations"
    /\ t + 1 <= bond.n
    /\ t' = t + 1
    /\ pv' = RAdd(pv, RDiv(RMul(FromInt(t'), CouponAmount(bond)),
                           RPow(RAdd(One, CouponRate(bond)), t')))
    /\ UNCHANGED <<pc, bond, y1, y2, i, initial_ytm, initial_ytc, yields, out>>
    /\ UNCHANGED riskVars

\* macaulay_duration, read after the loop with the loop variable t
MacaulayDuration(b, pvsum, tlast) ==
    RDiv(RAdd(pvsum, RDiv(RMul(FromInt(b.n), FromInt(b.face_value)),
                          RPow(RAdd(One, CouponRate(b)), tlast))),
         FromInt(b.price))

\* the modified duration with the annual yield left undivided
ModifiedDuration_annual(b, mac, ytm) == RDiv(mac, RAdd(One, ytm))

\* modified_duration = macaulay_duration / (1 + ytm / num_coupon_periods)
ModifiedDuration(b, mac, ytm) ==
    RDiv(mac, RAdd(One, RDiv(ytm, FromInt(b.num_coupon_periods))))

\* the loop has ended.  With n <= 0 the loop never bound t and reading it
\* raises UnboundLocalError; a price of 0 raises ZeroDivisionError; otherwise
\* the durations are computed and the 5-tuple is returned.
DurationEnd ==
    /\ pc = "durations"
    /\ t + 1 > bond.n
    /\ IF t = 0
         THEN /\ out' = Raised("UnboundLocalError")
              /\ pc' = "raised"
         ELSE IF bond.price = 0
         THEN /\ out' = Raised("ZeroDivisionError")
              /\ pc' = "raised"
         ELSE LET mac == MacaulayDuration(bond, pv, t)
                  mod == ModifiedDuration(bond, mac, yields.ytm)
              IN  /\ out' = [kind |-> "analytics", ytm |-> yields.ytm,
                             ytc |-> yields.ytc, ytw |-> yields.ytw,
                             macaulay_duration |-> mac,
                             modified_duration |-> mod]
                  /\ pc' = "returned"
    /\ UNCHANGED <<bond, y1, y2, i, initial_ytm, initial_ytc, yields, t, pv>>
    /\ UNCHANGED riskVars

\* the caller drops the bond
Discard ==
    /\ pc \in {"returned", "raised"}
    /\ bond.kind = "bond"
    /\ pc' = "idle"
    /\ bond' = NoBond
    /\ y1' = NoArray
    /\ y2' = NoArray
    /\ i' = 0
    /\ initial_ytm' = 0
    /\ initial_ytc' = 0
    /\ yields' = NoYields
    /\ t' = 0
    /\ pv' = Zero
    /\ out' = NoOut
    /\ prev' = NoPrev
    /\ UNCHANGED <<call, relevant_returns>>

(***************************************************************************)
(* Portfolio risk functions.  A return matrix is an array of N rows (one   *)
(* per asset) of T returns; a weight vector is an array of N weights.      *)
(***************************************************************************)
\* largest return drawn, in hundredths
MaxRet == 1
\* longest array handed to historical_var
MaxLen == 3
\* largest number of degrees of freedom handed to risk_metrics
MaxD == 3

ArrLen(a) == Cardinality(DOMAIN a)

\* a[0] + ... + a[len - 1]
RECURSIVE SumTo(_, _)
SumTo(a, len) == IF len = 0 THEN Zero ELSE RAdd(SumTo(a, len - 1), a[len - 1])
RSum(a) == SumTo(a, ArrLen(a))

\* np.dot of two vectors of the same length
Dot(u, v) == RSum([j \in DOMAIN u |-> RMul(u[j], v[j])])

\* np.mean
Mean(a) == RDiv(RSum(a), FromInt(ArrLen(a)))

\* portfolio_returns: np.dot(weights, returns), one value per column
portfolio_returns(returns, weights) ==
    [c \in DOMAIN returns[0] |->
        Dot(weights, [a \in DOMAIN returns |-> returns[a][c]])]

\* the covariance with the divisor T of a population covariance
Cov_biased(returns) ==
    LET T == ArrLen(returns[0])
        dev == [a \in DOMAIN returns |->
                  [c \in DOMAIN returns[a] |-> RSub(returns[a][c], Mean(returns[a]))]]
    IN  [a \in DOMAIN returns |-> [b \in DOMAIN returns |->
            RDiv(Dot(dev[a], dev[b]), FromInt(T))]]

\* np.cov(returns): rows are the variables, the divisor is T - 1
Cov(returns) ==
    LET T == ArrLen(returns[0])
        dev == [a \in DOMAIN returns |->
                  [c \in DOMAIN returns[a] |-> RSub(returns[a][c], Mean(returns[a]))]]
    IN  [a \in DOMAIN returns |-> [b \in DOMAIN returns |->
            RDiv(Dot(dev[a], dev[b]), FromInt(T - 1))]]

\* portfolio_volatility: np.dot(np.dot(weights, covariance), w_T)[0]
portfolio_volatility(returns, weights) ==
    LET covariance == Cov(returns)
        wc == [b \in DOMAIN returns |->
                 Dot(weights, [a \in DOMAIN returns |-> covariance[a][b]])]
    IN  Dot(wc, weights)

\* a float64 quotient num / np.sqrt(var): numpy divides by zero without
\* raising and yields inf, -inf or nan
OverSqrt(num, var) ==
    IF var.n # 0 THEN [kind |-> "float", num |-> num, sqrt_of |-> var]
    ELSE IF num.n > 0 THEN [kind |-> "inf"]
    ELSE IF num.n < 0 THEN [kind |-> "-inf"]
    ELSE [kind |-> "nan"]

\* sharpe_ratio: (np.mean(port_returns) - risk_free_rate) / standard deviation
sharpe_ratio(port_returns, risk_free_rate, asset_returns, weights) ==
    OverSqrt(RSub(Mean(port_returns), risk_free_rate),
             portfolio_volatility(asset_returns, weights))

\* the t-distribution expected shortfall of risk_metrics,
\*   pdf * sigma * (d + ppf**2) / (alpha * (d - 1)) - mu,
\* where pdf > 0: what the float64 division yields
TDistES(var, alpha, d) ==
    IF RMul(alpha, FromInt(d - 1)).n # 0 THEN [kind |-> "float"]
    ELSE IF var.n # 0 THEN [kind |-> "inf"]
    ELSE [kind |-> "nan"]

\* risk_metrics: the values the function computes itself; the densities,
\* quantiles and integrals of scipy are not evaluated
risk_metrics(returns, weights, var_p, alpha, d) ==
    LET var == portfolio_volatility(returns, weights)
        mu == RDiv(RSum(portfolio_returns(returns, weights)),
                   FromInt(ArrLen(returns[0])))
    IN  [kind |-> "risk", var |-> var, sigma |-> [sqrt_of |-> var], mu |-> mu,
         t_dist_es |-> TDistES(var, alpha, d)]

\* the test with <= in place of <
Counts_le(x, var_p) == RLeq(x, var_p)
\* the test with > in place of <
Counts_gt(x, var_p) == RLess(var_p, x)

\* the test of historical_var: port_returns[i] < var_p
Counts(x, var_p) == RLess(x, var_p)

Hundredth(v) == Rat(v, 100)
RetVals == {Hundredth(v) : v \in (0 - 1)..MaxRet}
Shapes == {<<1, 2>>, <<1, 3>>, <<2, 2>>}
Matrix(rows) == [a \in 0..(Len(rows) - 1) |->
                   [c \in 0..(Len(rows[a + 1]) - 1) |-> Hundredth(rows[a + 1][c + 1])]]
\* the 2-asset example: rows in hundredths
Scenario == Matrix(<<<<1, 0 - 2, 3, 0>>, <<2, 1, 0 - 1, 2>>>>)
ReturnMatrices ==
    UNION {[0..(sh[1] - 1) -> [0..(sh[2] - 1) -> RetVals]] : sh \in Shapes}
        \cup {Scenario}
WeightVals == {Rat(0 - 1, 2), Zero, Rat(1, 2), One}
WeightsFor(returns) == [DOMAIN returns -> WeightVals]
RiskFreeRates == {Zero, Hundredth(1)}
Alphas == {Rat(1, 20)}
Cutoffs == {Hundredth(v) : v \in (0 - 1)..(MaxRet + 1)}
ReturnArrays == UNION {[0..(len - 1) -> RetVals] : len \in 0..MaxLen}

\* a call of one of the loop-free functions: it runs to its return
RunFunction(c, result) ==
    /\ call' = c
    /\ out' = result
    /\ pc' = "pf_returned"
    /\ UNCHANGED <<i, relevant_returns, prev>>
    /\ UNCHANGED bondVars

PortfolioReturns ==
    /\ pc = "idle"
    /\ \E returns \in ReturnMatrices : \E weights \in WeightsFor(returns) :
        RunFunction([fn |-> "portfolio_returns", returns |-> returns,
                     weights |-> weights],
                    [kind |-> "array", value |-> portfolio_returns(returns, weights)])

PortfolioVolatility ==
    /\ pc = "idle"
    /\ \E returns \in ReturnMatrices : \E weights \in WeightsFor(returns) :
        RunFunction([fn |-> "portfolio_volatility", returns |-> returns,
                     weights |-> weights],
                    [kind |-> "value", value |-> portfolio_volatility(returns, weights)])

\* sharpe_ratio(port_returns, rf, eq_returns, w), port_returns being the
\* portfolio's returns as in the script
SharpeRatio ==
    /\ pc = "idle"
    /\ \E returns \in ReturnMatrices : \E weights \in WeightsFor(returns) :
       \E risk_free_rate \in RiskFreeRates :
        RunFunction([fn |-> "sharpe_ratio", returns |-> returns,
                     weights |-> weights, risk_free_rate |-> risk_free_rate],
                    sharpe_ratio(portfolio_returns(returns, weights),
                                 risk_free_rate, returns, weights))

RiskMetrics ==
    /\ pc = "idle"
    /\ \E returns \in ReturnMatrices : \E weights \in WeightsFor(returns) :
       \E var_p \in {Zero}, alpha \in Alphas, d \in 1..MaxD :
        RunFunction([fn |-> "risk_metrics", returns |-> returns,
                     weights |-> weights, var_p |-> var_p, alpha |-> alpha,
                     d |-> d],
                    risk_metrics(returns, weights, var_p, alpha, d))

\* historical_var(port_returns, var_p) starts: relevant_returns = 0
StartHistoricalVar(port_returns, var_p) ==
    /\ call' = [fn |-> "historical_var", port_returns |-> port_returns,
                var_p |-> var_p]
    /\ relevant_returns' = 0
    /\ i' = 0
    /\ out' = NoOut
    /\ pc' = "hv_loop"
    /\ UNCHANGED bondVars

HistoricalVar ==
    /\ pc = "idle"
    /\ \E port_returns \in ReturnArrays, var_p \in Cutoffs :
           StartHistoricalVar(port_returns, var_p)
    /\ prev' = NoPrev

\* the caller keeps the result and calls again on the same array
HistoricalVarAgain ==
    /\ pc = "hv_returned"
    /\ \E var_p \in Cutoffs : StartHistoricalVar(call.port_returns, var_p)
    /\ prev' = [kind |-> "h_var", var_p |-> call.var_p, h_var |-> out.value]

\* one iteration of: for i in range(0, port_returns.shape[0])
HistoricalVarStep ==
    /\ pc = "hv_loop"
    /\ i \in DOMAIN call.port_returns
    /\ relevant_returns' = IF Counts(call.port_returns[i], call.var_p)
                             THEN relevant_returns + 1
                             ELSE relevant_returns
    /\ i' = i + 1
    /\ UNCHANGED <<pc, out, call, prev>>
    /\ UNCHANGED bondVars

\* h_var = relevant_returns / port_returns.shape[0]: two Python ints, so an
\* empty array raises ZeroDivisionError
HistoricalVarEnd ==
    /\ pc = "hv_loop"
    /\ i \notin DOMAIN call.port_returns
    /\ IF ArrLen(call.port_returns) = 0
         THEN /\ out' = Raised("ZeroDivisionError")
              /\ pc' = "hv_raised"
         ELSE /\ out' = [kind |-> "value",
                         value |-> Rat(relevant_returns, ArrLen(call.port_returns))]
              /\ pc' = "hv_returned"
    /\ UNCHANGED <<i, call, relevant_returns, prev>>
    /\ UNCHANGED bondVars

\* the caller is done with the result
Forget ==
    /\ pc \in {"pf_returned", "hv_returned", "hv_raised"}
    /\ pc' = "idle"
    /\ call' = NoCall
    /\ out' = NoOut
    /\ i' = 0
    /\ relevant_returns' = 0
    /\ prev' = NoPrev
    /\ UNCHANGED bondVars

Next ==
    \/ NewBond
    \/ CallAnalytics
    \/ ScanStep
    \/ ScanEnd
    \/ DurationStep
    \/ DurationEnd
    \/ Discard
    \/ PortfolioReturns
    \/ PortfolioVolatility
    \/ SharpeRatio
    \/ RiskMetrics
    \/ HistoricalVar
    \/ HistoricalVarAgain
    \/ HistoricalVarStep
    \/ HistoricalVarEnd
    \/ Forget

Spec == Init /\ [][Next]_vars

(***************************************************************************)
(* Properties.                                                             *)
(***************************************************************************)
\* a bond with price > 0, face_value > 0 and n >= 1
ValidBond ==
    /\ bond.kind = "bond"
    /\ bond.price > 0
    /\ bond.face_value > 0
    /\ bond.n >= 1

ExactLess(a, b) == a.n * b.d < b.n * a.d
ExactLeq(a, b) == a.n * b.d <= b.n * a.d

\* C1: for every valid bond the YTW of the returned tuple is the minimum of
\* its YTM and its YTC: it is one of the two and exceeds neither.
C1_YtwIsMin ==
    (pc = "returned" /\ ValidBond) =>
        /\ out.ytw = out.ytm \/ out.ytw = out.ytc
        /\ ExactLeq(out.ytw, out.ytm)
        /\ ExactLeq(out.ytw, out.ytc)

\* C1 witness: a valid bond's tuple whose YTC is the smaller yield
C1_Witness ==
    /\ pc = "returned"
    /\ ValidBond
    /\ ExactLess(out.ytc, out.ytm)
    /\ out.ytw = out.ytc

\* |y[a]| <= |y[j]|
AbsLeq(y, a, j) == Abs(y[a].n) * y[j].d <= Abs(y[j].n) * y[a].d

\* C2: after the scan has processed the indices below i, each stored index
\* minimises the absolute residual of its own array over those indices; once
\* the loop has ended each minimises it over the whole grid.
C2_ScanArgmin ==
    (pc \in {"scan", "durations", "returned", "raised"}) =>
        /\ i >= 1 => (initial_ytm < i /\ initial_ytc < i)
        /\ \A j \in DOMAIN y1 : j < i =>
              /\ AbsLeq(y1, initial_ytm, j)
              /\ AbsLeq(y2, initial_ytc, j)
        /\ pc # "scan" => i = ArrLen(x1)

\* C2 witness: a finished scan that moved both indices, to different candidates
C2_Witness ==
    /\ pc = "durations"
    /\ ValidBond
    /\ initial_ytm > 0
    /\ initial_ytc > 0
    /\ initial_ytm # initial_ytc

\* the elements of the array strictly below the cutoff
Below(a, var_p) == {j \in DOMAIN a : ExactLess(a[j], var_p)}

\* C3: historical_var returns the number of elements strictly less than var_p
\* divided by the length of the array; elements equal to var_p do not count.
C3_HistoricalVarFraction ==
    pc = "hv_returned" =>
        /\ out.value.n * ArrLen(call.port_returns)
              = Cardinality(Below(call.port_returns, call.var_p)) * out.value.d
        /\ relevant_returns = Cardinality(Below(call.port_returns, call.var_p))

\* C3 witness: a returned call on an array with an element equal to the
\* cutoff, one below it and one above it
C3_Witness ==
    /\ pc = "hv_returned"
    /\ \E j \in DOMAIN call.port_returns : call.port_returns[j] = call.var_p
    /\ \E j \in DOMAIN call.port_returns : ExactLess(call.port_returns[j], call.var_p)
    /\ \E j \in DOMAIN call.port_returns : ExactLess(call.var_p, call.port_returns[j])

\* C4: every result of historical_var lies in [0, 1], and of two calls on the
\* same array the one with the smaller or equal cutoff returns the smaller or
\* equal result.
C4_RangeAndMonotone ==
    pc = "hv_returned" =>
        /\ ExactLeq(Zero, out.value)
        /\ ExactLeq(out.value, One)
        /\ prev.kind = "h_var" =>
              /\ ExactLeq(prev.var_p, call.var_p) => ExactLeq(prev.h_var, out.value)
              /\ ExactLeq(call.var_p, prev.var_p) => ExactLeq(out.value, prev.h_var)

\* C4 witness: a second call with a larger cutoff returned a larger result
C4_Witness ==
    /\ pc = "hv_returned"
    /\ prev.kind = "h_var"
    /\ ExactLess(prev.var_p, call.var_p)
    /\ ExactLess(prev.h_var, out.value)
    /\ ExactLess(out.value, One)

\* a bond with price <= 0, face_value <= 0 or n <= 0
InvalidBond ==
    /\ bond.kind = "bond"
    /\ bond.price <= 0 \/ bond.face_value <= 0 \/ bond.n <= 0

\* C5: an invalid bond is rejected before any computation: its analytics
\* never reach the yield scan or the durations and never return a tuple, and
\* the error raised for it is an input-validation error.
C5_RejectsInvalidBond ==
    InvalidBond =>
        /\ pc \notin {"scan", "durations", "returned"}
        /\ yields.kind = "none"
        /\ out.kind # "analytics"
        /\ out.kind = "raise" =>
              out.exc \notin {"UnboundLocalError", "ZeroDivisionError"}

\* the coupon paid per coupon period, as f_ytm computes it
PeriodicCoupon(b) ==
    RDiv(RMul(RMul(FromInt(b.coupon), Percent), FromInt(b.face_value)),
         FromInt(b.num_coupon_periods))

\* sum over t = 1..n of (t * amount) / (1 + rate)^t
RECURSIVE DiscountedSum(_, _, _)
DiscountedSum(amount, rate, n) ==
    IF n = 0 THEN Zero
    ELSE RAdd(DiscountedSum(amount, rate, n - 1),
              RDiv(RMul(FromInt(n), amount), RPow(RAdd(One, rate), n)))

\* C6: for a valid bond (so n >= 1) the Macaulay Duration returned is
\* [sum over t = 1..n of (t * periodic coupon) / (1+i)^t + (n * face_value) / (1+i)^n] / price
\* with the coupon paid per coupon period and the face value discounted with
\* exponent n.
C6_MacaulayFormula ==
    (pc = "returned" /\ ValidBond) =>
        out.macaulay_duration =
            RDiv(RAdd(DiscountedSum(PeriodicCoupon(bond), CouponRate(bond), bond.n),
                      RDiv(RMul(FromInt(bond.n), FromInt(bond.face_value)),
                           RPow(RAdd(One, CouponRate(bond)), bond.n))),
                 FromInt(bond.price))

\* C7: for every valid bond Modified Duration * (1 + YTM / periods) equals
\* Macaulay Duration; Modified is strictly less than Macaulay when
\* YTM / periods > 0 and equal to it when YTM = 0.
C7_ModifiedDuration ==
    (pc = "returned" /\ ValidBond) =>
        LET q == RDiv(out.ytm, FromInt(bond.num_coupon_periods))
        IN  /\ RMul(out.modified_duration, RAdd(One, q)) = out.macaulay_duration
            /\ ExactLess(Zero, q) =>
                  ExactLess(out.modified_duration, out.macaulay_duration)
            /\ out.ytm = Zero => out.modified_duration = out.macaulay_duration

\* C7 witness: a valid bond with two coupon periods a year whose tuple has
\* a positive YTM and a Modified Duration below its Macaulay Duration
C7_Witness ==
    /\ pc = "returned"
    /\ ValidBond
    /\ bond.num_coupon_periods = 2
    /\ ExactLess(Zero, out.ytm)
    /\ ExactLess(out.modified_duration, out.macaulay_duration)

\* C8: when the portfolio variance is exactly zero sharpe_ratio reports an
\* error and does not return the quotient.
C8_SharpeGuardsZeroVolatility ==
    (/\ pc = "pf_returned"
     /\ call.fn = "sharpe_ratio"
     /\ portfolio_volatility(call.returns, call.weights) = Zero)
        => out.kind = "raise"

\* C9: risk_metrics rejects d <= 1 with an error and returns no tuple for it.
C9_RejectsSmallD ==
    (pc = "pf_returned" /\ call.fn = "risk_metrics" /\ call.d <= 1)
        => out.kind = "raise"

\* the variance of an array with the divisor len - 1
SampleVariance(a) ==
    LET m == RDiv(RSum(a), FromInt(ArrLen(a)))
        sq == [j \in DOMAIN a |-> RMul(RSub(a[j], m), RSub(a[j], m))]
    IN  RDiv(RSum(sq), FromInt(ArrLen(a) - 1))

Halves == [a \in 0..1 |-> Rat(1, 2)]
ScenarioReturns == (0 :> Rat(15, 1000)) @@ (1 :> Rat(0 - 5, 1000))
                       @@ (2 :> Rat(1, 100)) @@ (3 :> Rat(1, 100))

\* C10: portfolio_volatility(returns, weights) equals the sample variance
\* (divisor T - 1) of portfolio_returns(returns, weights); for the 2-asset
\* example with weights [0.5, 0.5] the portfolio returns are
\* [0.015, -0.005, 0.01, 0.01].
C10_VolatilityIsVariance ==
    pc = "pf_returned" =>
        /\ call.fn = "portfolio_volatility" =>
              out.value = SampleVariance(portfolio_returns(call.returns, call.weights))
        /\ (/\ call.fn = "portfolio_returns"
            /\ call.returns = Scenario
            /\ call.weights = Halves) => out.value = ScenarioReturns

\* C10 witness: the volatility of the 2-asset example with weights
\* [0.5, 0.5], which is not zero
C10_Witness ==
    /\ pc = "pf_returned"
    /\ call.fn = "portfolio_volatility"
    /\ call.returns = Scenario
    /\ call.weights = Halves
    /\ out.value # Zero

\* C11: a bond keeps the fields it was constructed with through every call
\* of calculate_bond_analytics, and a call on a bond that was analysed
\* before returns (or raises) exactly what the previous call did.
C11_BondImmutable ==
    bond.kind = "bond" =>
        /\ prev.kind = "bond"
        /\ bond = prev.made
        /\ (pc \in {"returned", "raised"} /\ prev.out.kind # "none") =>
              out = prev.out

\* C11 witness: a second call on a valid bond has returned its 5-tuple
C11_Witness ==
    /\ pc = "returned"
    /\ ValidBond
    /\ prev.kind = "bond"
    /\ prev.out.kind = "analytics"
    /\ out.kind = "analytics"
    /\ bond.t # Zero

\* the grid candidate with index j: (j + 1) steps of 1 / GridN
Candidate(j) == [n |-> j + 1, d |-> GridN]
ExactEq(a, b) == a.n * b.d = b.n * a.d

\* C12: the YTM returned is num_coupon_periods times the grid candidate
\* selected for f_ytm, and the YTC returned is the grid candidate selected
\* for f_ytc, not multiplied.
C12_YtmAnnualisedYtcRaw ==
    (pc \in {"durations", "returned", "raised"}) =>
        /\ yields.ytm.n * GridN
              = bond.num_coupon_periods * (initial_ytm + 1) * yields.ytm.d
        /\ ExactEq(yields.ytc, Candidate(initial_ytc))
        /\ pc = "returned" => (out.ytm = yields.ytm /\ out.ytc = yields.ytc)

\* C12 witness: a tuple of a bond with two coupon periods a year for which
\* both scans selected the same candidate: the YTM is twice the YTC
C12_Witness ==
    /\ pc = "returned"
    /\ ValidBond
    /\ bond.num_coupon_periods = 2
    /\ initial_ytm = initial_ytc
    /\ ExactEq(out.ytm, RMul(Two, out.ytc))
    /\ out.ytm # out.ytc

\* |y[a]| < |y[j]|
AbsLess(y, a, j) == Abs(y[a].n) * y[j].d < Abs(y[j].n) * y[a].d

\* a is the smallest index among 0..upto-1 that attains the least |y|
FirstArgmin(y, a, upto) ==
    \A j \in DOMAIN y : j < upto =>
        IF j < a THEN AbsLess(y, a, j) ELSE AbsLeq(y, a, j)

\* C13: each stored index is the smallest index attaining the least absolute
\* residual among the candidates processed so far: every earlier candidate
\* is strictly worse, so the index never moved to an equal or larger
\* residual, and among tied minima the lowest candidate is selected.
C13_LowestIndexOnTies ==
    (pc \in {"scan", "durations", "returned", "raised"}) =>
        /\ FirstArgmin(y1, initial_ytm, i)
        /\ FirstArgmin(y2, initial_ytc, i)

\* C13 witness: a finished scan of a valid bond in which a later candidate
\* ties with the selected one
C13_Witness ==
    /\ pc = "durations"
    /\ ValidBond
    /\ \/ \E j \in DOMAIN y1 : j > initial_ytm /\ ExactEq(RAbs(y1[j]), RAbs(y1[initial_ytm]))
       \/ \E j \in DOMAIN y2 : j > initial_ytc /\ ExactEq(RAbs(y2[j]), RAbs(y2[initial_ytc]))

\* C14: the stored indices stay within 0..len(grid)-1 during the whole scan,
\* calculate_yields raises nothing and always returns grid values: YTC lies
\* in [step, 1 - step] and YTM in [periods * step, periods * (1 - step)],
\* with step = 1 / GridN, also when a residual has one sign on the whole grid.
C14_AlwaysAGridValue ==
    (pc \in {"scan", "durations", "returned", "raised"}) =>
        /\ initial_ytm \in 0..(GridN - 2)
        /\ initial_ytc \in 0..(GridN - 2)
        /\ pc = "scan" => out.kind = "none"
        /\ pc # "scan" =>
              /\ yields.kind = "yields"
              /\ ExactLeq(Candidate(0), yields.ytc)
              /\ ExactLeq(yields.ytc, Candidate(GridN - 2))
              /\ bond.num_coupon_periods * yields.ytm.d <= yields.ytm.n * GridN
              /\ yields.ytm.n * GridN
                    <= bond.num_coupon_periods * (GridN - 1) * yields.ytm.d

\* C14 witness: a valid bond whose f_ytm is positive on the whole grid; the
\* last candidate is selected and the tuple is returned
C14_Witness ==
    /\ pc = "returned"
    /\ ValidBond
    /\ \A j \in DOMAIN y1 : y1[j].n > 0
    /\ initial_ytm = GridN - 2
    /\ out.ytm = AnnualYtm(bond, Candidate(GridN - 2))

====
